---- MODULE Spec2Model ----
(***************************************************************************)
(* Model of apps/api/src/utils/migrate-workspace-user-email.ts:            *)
(*   - migrateWorkspaceUserEmail, the routine that converts the            *)
(*     workspace_member table from user_email to user_id, one awaited SQL  *)
(*     statement per step;                                                 *)
(*   - TaskPriorityPopover, the widget that changes a task's priority.     *)
(***************************************************************************)
EXTENDS Integers, Sequences, FiniteSets, TLC

\* ------------------------------------------------------------------ bounds
MaxRows == 2          \* workspace_member holds at most this many rows
MaxRuns == 2          \* an instance runs the routine at most this many times
MaxCalls == 2         \* option clicks delivered to one widget

\* ------------------------------------------------------------------ values
NULL == "NULL"
NoError == "none"
RowIds == 1..MaxRows
Procs == {1, 2}
UserIds == {"u1", "u2"}
UserEmails == {"a@x", "b@x"}
\* '' is a legal, non-null value of the text column user_email
MemberEmails == UserEmails \cup {""}

VARIABLES
  hasEmailCol,          \* information_schema: workspace_member.user_email exists
  hasIdCol,             \* information_schema: workspace_member.user_id exists
  wm,                   \* workspace_member: row id -> [user_id, user_email]
  user,                 \* user: set of [id, email], id the primary key
  instances,            \* the application instances that run the routine
  pc,                   \* per instance: the statement it is about to execute
  hasUserEmailColumn,   \* per instance: result of the column probe
  orphanedRecords,      \* per instance: count read at lines 52-56
  nullRecords,          \* per instance: count read at lines 73-77
  nullUserIds,          \* per instance: count read at lines 94-98
  caught,               \* per instance: the error bound in the catch clause
  logged,               \* per instance: the error written by console.error
  thrown,               \* per instance: the error the caller receives
  stmts,                \* per instance: statements issued by the current run
  affected,             \* per instance: rows written by the current run's DML
  ddl,                  \* per instance: ALTER TABLEs executed by the current run
  pre,                  \* per instance: the database when the current run began
  runNo,                \* per instance: runs started so far
  prevOk,               \* per instance: the run before this one completed
  origin                \* per instance: the database before the runs that
                        \* threw since the last completed run, if any

VARIABLES
  open,                 \* useState(false): the popover's visibility
  task,                 \* the task prop of the current render
  clicked,              \* the option value of the last click delivered
  pending,              \* arguments of the updateTask calls still awaited
  updateCalls,          \* number of updateTask invocations so far
  settled,              \* how the promise that settled last did
  toasts                \* messages given to toast.error, in order

widgetVars == <<open, task, clicked, pending, updateCalls, settled, toasts>>
dbVars == <<hasEmailCol, hasIdCol, wm, user>>
procVars == <<instances, pc, hasUserEmailColumn, orphanedRecords, nullRecords,
              nullUserIds, caught, logged, thrown, stmts, affected, ddl, pre,
              runNo, prevOk, origin>>
migVars == <<dbVars, procVars>>

\* ------------------------------------------------------------ the database
RowVals == [user_id : UserIds \cup {NULL}, user_email : MemberEmails \cup {NULL}]

Tables == UNION {[S -> RowVals] : S \in SUBSET RowIds}

\* user.id is the primary key: one row per id
UserTables ==
  {t \in SUBSET [id : UserIds, email : UserEmails] :
     \A u, v \in t : u.id = v.id => u = v}

Snapshot == [wm |-> wm, hasEmailCol |-> hasEmailCol, hasIdCol |-> hasIdCol]

\* variant: the subquery is not correlated with the member row
SubqueryIdsUncorrelated(r) == {u.id : u \in user}

\* SELECT u.id FROM "user" u WHERE u.email = "workspace_member"."user_email"
SubqueryIds(r) == {u.id : u \in {v \in user : v.email = r.user_email}}

\* variant: the UPDATE's WHERE lacks "user_id" IS NULL
PopulateWhereAnyId(r) == r.user_email # NULL

\* WHERE "user_id" IS NULL AND "user_email" IS NOT NULL  (the UPDATE)
PopulateWhere(r) == r.user_id = NULL /\ r.user_email # NULL

\* variant: the subquery selects u.email
ScalarSubqueryEmail(r) == IF SubqueryIds(r) = {} THEN NULL ELSE r.user_email

\* a scalar subquery yields NULL on no row, the value on one row
ScalarSubquery(r) ==
  IF SubqueryIds(r) = {} THEN NULL ELSE CHOOSE i \in SubqueryIds(r) : TRUE

\* ... and is an error on more than one row
CardinalityViolation ==
  \E k \in DOMAIN wm : PopulateWhere(wm[k]) /\ Cardinality(SubqueryIds(wm[k])) > 1

\* variant: the orphan DELETE's WHERE lacks "user_id" IS NULL
OrphanedDeleteWhereAnyId(r) == r.user_email # NULL

\* variant: the orphan DELETE tests "user_email" IS NULL
OrphanedDeleteWhereNullEmail(r) == r.user_id = NULL /\ r.user_email = NULL

\* variant: the final DELETE repeats the orphan DELETE's WHERE
NullUserIdsDeleteWhereOrphans(r) == r.user_id = NULL /\ r.user_email # NULL

\* variant: the null-record DELETE's WHERE lacks "user_id" IS NULL
NullRecordsDeleteWhereAnyId(r) == r.user_email = NULL \/ r.user_email = ""

\* WHERE clauses of the three COUNT / DELETE pairs
OrphanedCountWhere(r) == r.user_id = NULL /\ r.user_email # NULL
OrphanedDeleteWhere(r) == r.user_id = NULL /\ r.user_email # NULL
NullRecordsCountWhere(r) ==
  r.user_id = NULL /\ (r.user_email = NULL \/ r.user_email = "")
NullRecordsDeleteWhere(r) ==
  r.user_id = NULL /\ (r.user_email = NULL \/ r.user_email = "")
NullUserIdsCountWhere(r) == r.user_id = NULL
NullUserIdsDeleteWhere(r) == r.user_id = NULL

\* variants: rows.length >= 0; count > 1
ColumnFoundAlways(n) == n >= 0
HasRecordsOffByOne(n) == n > 1

\* rows.length > 0 of the probe;  count && Number(count) > 0  of the counts
ColumnFound(n) == n > 0
HasRecords(n) == n > 0

\* ---------------------------------------------------------- control points
StmtPcs == {"probe", "addcol", "populate", "count_orphaned", "delete_orphaned",
            "count_nullrec", "delete_nullrec", "count_nulluid", "delete_nulluid"}

\* the workspace_member columns a statement names
ColumnsOf(s) ==
  CASE s \in {"populate", "count_orphaned", "delete_orphaned",
              "count_nullrec", "delete_nullrec"} -> {"user_id", "user_email"}
    [] s \in {"count_nulluid", "delete_nulluid"} -> {"user_id"}
    [] OTHER -> {}

ColumnExists(c) == IF c = "user_id" THEN hasIdCol ELSE hasEmailCol

\* errors the statement at pc[p] must raise in the current database
DataErrors(p) ==
  (IF \E c \in ColumnsOf(pc[p]) : ~ColumnExists(c)
     THEN {"undefined_column"} ELSE {})
  \cup
  (IF pc[p] = "populate" /\ hasIdCol /\ hasEmailCol /\ CardinalityViolation
     THEN {"cardinality_violation"} ELSE {})

\* connectivity may fail any statement
StatementErrors(p) == DataErrors(p) \cup {"connection_error"}

Issue(p) == stmts' = [stmts EXCEPT ![p] = Append(@, pc[p])]

\* ------------------------------------------------------------------ initial
MigInit ==
  /\ hasEmailCol \in BOOLEAN
  /\ hasIdCol \in BOOLEAN
  /\ wm \in Tables
  /\ \A k \in DOMAIN wm :
       /\ ~hasIdCol => wm[k].user_id = NULL
       /\ ~hasEmailCol => wm[k].user_email = NULL
  /\ user \in UserTables
  /\ pc = [p \in Procs |-> "idle"]
  /\ hasUserEmailColumn = [p \in Procs |-> FALSE]
  /\ orphanedRecords = [p \in Procs |-> 0]
  /\ nullRecords = [p \in Procs |-> 0]
  /\ nullUserIds = [p \in Procs |-> 0]
  /\ caught = [p \in Procs |-> NoError]
  /\ logged = [p \in Procs |-> NoError]
  /\ thrown = [p \in Procs |-> NoError]
  /\ stmts = [p \in Procs |-> <<>>]
  /\ affected = [p \in Procs |-> 0]
  /\ ddl = [p \in Procs |-> 0]
  /\ pre = [p \in Procs |-> Snapshot]
  /\ runNo = [p \in Procs |-> 0]
  /\ prevOk = [p \in Procs |-> FALSE]
  /\ origin = [p \in Procs |-> Snapshot]

\* ------------------------------------------------------------------ actions
\* the caller invokes migrateWorkspaceUserEmail()
Start(p) ==
  /\ p \in instances
  /\ pc[p] \in {"idle", "done", "thrown"}
  /\ runNo[p] < MaxRuns
  /\ pc' = [pc EXCEPT ![p] = "probe"]
  /\ runNo' = [runNo EXCEPT ![p] = @ + 1]
  /\ prevOk' = [prevOk EXCEPT ![p] = (pc[p] = "done")]
  /\ pre' = [pre EXCEPT ![p] = Snapshot]
  /\ origin' = [origin EXCEPT ![p] =
                  IF pc[p] = "thrown" THEN @ ELSE Snapshot]
  /\ hasUserEmailColumn' = [hasUserEmailColumn EXCEPT ![p] = FALSE]
  /\ orphanedRecords' = [orphanedRecords EXCEPT ![p] = 0]
  /\ nullRecords' = [nullRecords EXCEPT ![p] = 0]
  /\ nullUserIds' = [nullUserIds EXCEPT ![p] = 0]
  /\ caught' = [caught EXCEPT ![p] = NoError]
  /\ logged' = [logged EXCEPT ![p] = NoError]
  /\ thrown' = [thrown EXCEPT ![p] = NoError]
  /\ stmts' = [stmts EXCEPT ![p] = <<>>]
  /\ affected' = [affected EXCEPT ![p] = 0]
  /\ ddl' = [ddl EXCEPT ![p] = 0]
  /\ UNCHANGED <<widgetVars, dbVars, instances>>

\* variant: the branch goes to the UPDATE without the ADD COLUMN block
ProbeColumnNoAddColumn(p) ==
  /\ pc[p] = "probe"
  /\ DataErrors(p) = {}
  /\ Issue(p)
  /\ LET found == ColumnFound(IF hasEmailCol THEN 1 ELSE 0) IN
       /\ hasUserEmailColumn' = [hasUserEmailColumn EXCEPT ![p] = found]
       /\ pc' = [pc EXCEPT ![p] = IF found THEN "populate" ELSE "count_nulluid"]
  /\ UNCHANGED <<widgetVars, dbVars, instances, orphanedRecords, nullRecords,
                 nullUserIds, caught, logged, thrown, affected, ddl, pre, runNo,
                 prevOk, origin>>

\* SELECT column_name FROM information_schema.columns ... 'user_email'
ProbeColumn(p) ==
  /\ pc[p] = "probe"
  /\ DataErrors(p) = {}
  /\ Issue(p)
  /\ LET found == ColumnFound(IF hasEmailCol THEN 1 ELSE 0) IN
       /\ hasUserEmailColumn' = [hasUserEmailColumn EXCEPT ![p] = found]
       /\ pc' = [pc EXCEPT ![p] = IF found THEN "addcol" ELSE "count_nulluid"]
  /\ UNCHANGED <<widgetVars, dbVars, instances, orphanedRecords, nullRecords,
                 nullUserIds, caught, logged, thrown, affected, ddl, pre, runNo,
                 prevOk, origin>>

\* variant: an existing user_id column is taken to be populated already
AddUserIdColumnSkipIfExists(p) ==
  /\ pc[p] = "addcol"
  /\ DataErrors(p) = {}
  /\ Issue(p)
  /\ hasIdCol' = TRUE
  /\ ddl' = [ddl EXCEPT ![p] = IF hasIdCol THEN @ ELSE @ + 1]
  /\ pc' = [pc EXCEPT ![p] = IF hasIdCol THEN "count_orphaned" ELSE "populate"]
  /\ UNCHANGED <<widgetVars, hasEmailCol, wm, user, instances, hasUserEmailColumn,
                 orphanedRecords, nullRecords, nullUserIds, caught, logged,
                 thrown, affected, pre, runNo, prevOk, origin>>

\* variant: the column is dropped and added again, which empties it
AddUserIdColumnRecreate(p) ==
  /\ pc[p] = "addcol"
  /\ DataErrors(p) = {}
  /\ Issue(p)
  /\ hasIdCol' = TRUE
  /\ wm' = [k \in DOMAIN wm |-> [wm[k] EXCEPT !.user_id = NULL]]
  /\ ddl' = [ddl EXCEPT ![p] = @ + 1]
  /\ pc' = [pc EXCEPT ![p] = "populate"]
  /\ UNCHANGED <<widgetVars, hasEmailCol, user, instances, hasUserEmailColumn,
                 orphanedRecords, nullRecords, nullUserIds, caught, logged,
                 thrown, affected, pre, runNo, prevOk, origin>>

\* DO $$ ... IF NOT EXISTS (user_id) THEN ALTER TABLE ADD COLUMN "user_id" text
AddUserIdColumn(p) ==
  /\ pc[p] = "addcol"
  /\ DataErrors(p) = {}
  /\ Issue(p)
  /\ hasIdCol' = TRUE
  /\ ddl' = [ddl EXCEPT ![p] = IF hasIdCol THEN @ ELSE @ + 1]
  /\ pc' = [pc EXCEPT ![p] = "populate"]
  /\ UNCHANGED <<widgetVars, hasEmailCol, wm, user, instances, hasUserEmailColumn,
                 orphanedRecords, nullRecords, nullUserIds, caught, logged,
                 thrown, affected, pre, runNo, prevOk, origin>>

\* variant: the UPDATE also sets "user_email" = NULL
PopulateUserIdClearsEmail(p) ==
  /\ pc[p] = "populate"
  /\ DataErrors(p) = {}
  /\ Issue(p)
  /\ wm' = [k \in DOMAIN wm |->
              IF PopulateWhere(wm[k])
                THEN [user_id |-> ScalarSubquery(wm[k]), user_email |-> NULL]
                ELSE wm[k]]
  /\ affected' = [affected EXCEPT ![p] =
                     @ + Cardinality({k \in DOMAIN wm : PopulateWhere(wm[k])})]
  /\ pc' = [pc EXCEPT ![p] = "count_orphaned"]
  /\ UNCHANGED <<widgetVars, hasEmailCol, hasIdCol, user, instances,
                 hasUserEmailColumn, orphanedRecords, nullRecords, nullUserIds,
                 caught, logged, thrown, ddl, pre, runNo, prevOk, origin>>

\* UPDATE "workspace_member" SET "user_id" = (SELECT ...) WHERE ...
PopulateUserId(p) ==
  /\ pc[p] = "populate"
  /\ DataErrors(p) = {}
  /\ Issue(p)
  /\ wm' = [k \in DOMAIN wm |->
              IF PopulateWhere(wm[k])
                THEN [wm[k] EXCEPT !.user_id = ScalarSubquery(wm[k])]
                ELSE wm[k]]
  /\ affected' = [affected EXCEPT ![p] =
                     @ + Cardinality({k \in DOMAIN wm : PopulateWhere(wm[k])})]
  /\ pc' = [pc EXCEPT ![p] = "count_orphaned"]
  /\ UNCHANGED <<widgetVars, hasEmailCol, hasIdCol, user, instances, hasUserEmailColumn,
                 orphanedRecords, nullRecords, nullUserIds, caught, logged,
                 thrown, ddl, pre, runNo, prevOk, origin>>

\* SELECT COUNT(*) ... WHERE "user_id" IS NULL AND "user_email" IS NOT NULL
CountOrphaned(p) ==
  /\ pc[p] = "count_orphaned"
  /\ DataErrors(p) = {}
  /\ Issue(p)
  /\ orphanedRecords' = [orphanedRecords EXCEPT ![p] =
       Cardinality({k \in DOMAIN wm : OrphanedCountWhere(wm[k])})]
  /\ pc' = [pc EXCEPT ![p] = IF HasRecords(orphanedRecords'[p])
                               THEN "delete_orphaned" ELSE "count_nullrec"]
  /\ UNCHANGED <<widgetVars, dbVars, instances, hasUserEmailColumn, nullRecords,
                 nullUserIds, caught, logged, thrown, affected, ddl, pre,
                 runNo, prevOk, origin>>

\* DELETE ... WHERE "user_id" IS NULL AND "user_email" IS NOT NULL
DeleteOrphaned(p) ==
  /\ pc[p] = "delete_orphaned"
  /\ DataErrors(p) = {}
  /\ Issue(p)
  /\ wm' = [k \in {j \in DOMAIN wm : ~OrphanedDeleteWhere(wm[j])} |-> wm[k]]
  /\ affected' = [affected EXCEPT ![p] =
                     @ + Cardinality({k \in DOMAIN wm : OrphanedDeleteWhere(wm[k])})]
  /\ pc' = [pc EXCEPT ![p] = "count_nullrec"]
  /\ UNCHANGED <<widgetVars, hasEmailCol, hasIdCol, user, instances, hasUserEmailColumn,
                 orphanedRecords, nullRecords, nullUserIds, caught, logged,
                 thrown, ddl, pre, runNo, prevOk, origin>>

\* SELECT COUNT(*) ... WHERE "user_id" IS NULL AND ("user_email" IS NULL OR = '')
CountNullRecords(p) ==
  /\ pc[p] = "count_nullrec"
  /\ DataErrors(p) = {}
  /\ Issue(p)
  /\ nullRecords' = [nullRecords EXCEPT ![p] =
       Cardinality({k \in DOMAIN wm : NullRecordsCountWhere(wm[k])})]
  /\ pc' = [pc EXCEPT ![p] = IF HasRecords(nullRecords'[p])
                               THEN "delete_nullrec" ELSE "count_nulluid"]
  /\ UNCHANGED <<widgetVars, dbVars, instances, hasUserEmailColumn, orphanedRecords,
                 nullUserIds, caught, logged, thrown, affected, ddl, pre,
                 runNo, prevOk, origin>>

\* DELETE ... WHERE "user_id" IS NULL AND ("user_email" IS NULL OR = '')
DeleteNullRecords(p) ==
  /\ pc[p] = "delete_nullrec"
  /\ DataErrors(p) = {}
  /\ Issue(p)
  /\ wm' = [k \in {j \in DOMAIN wm : ~NullRecordsDeleteWhere(wm[j])} |-> wm[k]]
  /\ affected' = [affected EXCEPT ![p] =
                     @ + Cardinality({k \in DOMAIN wm : NullRecordsDeleteWhere(wm[k])})]
  /\ pc' = [pc EXCEPT ![p] = "count_nulluid"]
  /\ UNCHANGED <<widgetVars, hasEmailCol, hasIdCol, user, instances, hasUserEmailColumn,
                 orphanedRecords, nullRecords, nullUserIds, caught, logged,
                 thrown, ddl, pre, runNo, prevOk, origin>>

\* SELECT COUNT(*) ... WHERE "user_id" IS NULL; without rows to remove the
\* routine returns
CountNullUserIds(p) ==
  /\ pc[p] = "count_nulluid"
  /\ DataErrors(p) = {}
  /\ Issue(p)
  /\ nullUserIds' = [nullUserIds EXCEPT ![p] =
       Cardinality({k \in DOMAIN wm : NullUserIdsCountWhere(wm[k])})]
  /\ pc' = [pc EXCEPT ![p] = IF HasRecords(nullUserIds'[p])
                               THEN "delete_nulluid" ELSE "done"]
  /\ UNCHANGED <<widgetVars, dbVars, instances, hasUserEmailColumn, orphanedRecords,
                 nullRecords, caught, logged, thrown, affected, ddl, pre,
                 runNo, prevOk, origin>>

\* DELETE FROM "workspace_member" WHERE "user_id" IS NULL; then the routine
\* returns
DeleteNullUserIds(p) ==
  /\ pc[p] = "delete_nulluid"
  /\ DataErrors(p) = {}
  /\ Issue(p)
  /\ wm' = [k \in {j \in DOMAIN wm : ~NullUserIdsDeleteWhere(wm[j])} |-> wm[k]]
  /\ affected' = [affected EXCEPT ![p] =
                     @ + Cardinality({k \in DOMAIN wm : NullUserIdsDeleteWhere(wm[k])})]
  /\ pc' = [pc EXCEPT ![p] = "done"]
  /\ UNCHANGED <<widgetVars, hasEmailCol, hasIdCol, user, instances, hasUserEmailColumn,
                 orphanedRecords, nullRecords, nullUserIds, caught, logged,
                 thrown, ddl, pre, runNo, prevOk, origin>>

\* db.execute rejects: the statement has no effect and control enters catch
DbError(p) ==
  /\ pc[p] \in StmtPcs
  /\ \E e \in StatementErrors(p) : caught' = [caught EXCEPT ![p] = e]
  /\ Issue(p)
  /\ pc' = [pc EXCEPT ![p] = "catch"]
  /\ UNCHANGED <<widgetVars, dbVars, instances, hasUserEmailColumn, orphanedRecords,
                 nullRecords, nullUserIds, logged, thrown, affected, ddl, pre,
                 runNo, prevOk, origin>>

\* console.error("... Error during workspace member migration:", error)
LogError(p) ==
  /\ pc[p] = "catch"
  /\ logged' = [logged EXCEPT ![p] = caught[p]]
  /\ pc' = [pc EXCEPT ![p] = "rethrow"]
  /\ UNCHANGED <<widgetVars, dbVars, instances, hasUserEmailColumn, orphanedRecords,
                 nullRecords, nullUserIds, caught, thrown, stmts, affected,
                 ddl, pre, runNo, prevOk, origin>>

\* variant: the catch clause logs and returns
RethrowSwallowed(p) ==
  /\ pc[p] = "rethrow"
  /\ pc' = [pc EXCEPT ![p] = "done"]
  /\ UNCHANGED <<widgetVars, dbVars, instances, hasUserEmailColumn, orphanedRecords,
                 nullRecords, nullUserIds, caught, logged, thrown, stmts,
                 affected, ddl, pre, runNo, prevOk, origin>>

\* throw error
Rethrow(p) ==
  /\ pc[p] = "rethrow"
  /\ thrown' = [thrown EXCEPT ![p] = caught[p]]
  /\ pc' = [pc EXCEPT ![p] = "thrown"]
  /\ UNCHANGED <<widgetVars, dbVars, instances, hasUserEmailColumn, orphanedRecords,
                 nullRecords, nullUserIds, caught, logged, stmts, affected,
                 ddl, pre, runNo, prevOk, origin>>

\* ------------------------------------------------- TaskPriorityPopover
\* priorityOptions, in order
priorityOptions ==
  << [value |-> "no-priority", label |-> "No Priority"],
     [value |-> "low", label |-> "Low"],
     [value |-> "medium", label |-> "Medium"],
     [value |-> "high", label |-> "High"],
     [value |-> "urgent", label |-> "Urgent"] >>

OptionValues == {priorityOptions[i].value : i \in DOMAIN priorityOptions}

\* a task: its priority and the attributes the widget passes through
Titles == {"t1", "t2"}
Tasks == [id : {"T-1"}, title : Titles, priority : OptionValues]

\* what updateTask may reject with: an Error, or a value that is no Error
Rejections ==
  { [isError |-> TRUE, message |-> "Network error"],
    [isError |-> FALSE, message |-> "not an Error"] }

FallbackMessage == "Failed to update task priority"

\* variant: error.message without the instanceof test
ToastMessageAlways(error) == error.message

\* error instanceof Error ? error.message : "Failed to update task priority"
ToastMessage(error) == IF error.isError THEN error.message ELSE FallbackMessage

\* variant: the task is passed on without the override
UpdateArgsStale(t, newPriority) == t

\* { ...task, priority: newPriority }
UpdateArgs(t, newPriority) == [t EXCEPT !.priority = newPriority]

\* variant: the checkmark follows the option clicked last
CheckedOptimistic(i) ==
  priorityOptions[i].value = (IF clicked = "none" THEN task.priority ELSE clicked)

\* {task.priority === priority.value && <Check ... />}
Checked(i) == task.priority = priorityOptions[i].value

NotSettled == [state |-> "none"]
Resolved == [state |-> "resolved"]
Rejected(error) == [state |-> "rejected", error |-> error]

Without(q, i) == SubSeq(q, 1, i - 1) \o SubSeq(q, i + 1, Len(q))

WidgetInit ==
  /\ open = FALSE
  /\ task \in Tasks
  /\ clicked = "none"
  /\ pending = <<>>
  /\ updateCalls = 0
  /\ settled = NotSettled
  /\ toasts = <<>>

\* <Popover open={open} onOpenChange={setOpen}>: the library reports the
\* user opening or dismissing the popover
OnOpenChange(b) ==
  /\ b # open
  /\ open' = b
  /\ UNCHANGED <<task, clicked, pending, updateCalls, settled, toasts, migVars>>

\* the parent renders the widget with a refreshed task object
TaskRefreshed(t) ==
  /\ t # task
  /\ task' = t
  /\ UNCHANGED <<open, clicked, pending, updateCalls, settled, toasts, migVars>>

\* variant: a click is ignored while an update is pending
HandlePriorityChangeGuarded(newPriority) ==
  /\ open
  /\ pending = <<>>
  /\ updateCalls < MaxCalls
  /\ clicked' = newPriority
  /\ pending' = Append(pending, UpdateArgs(task, newPriority))
  /\ updateCalls' = updateCalls + 1
  /\ UNCHANGED <<open, task, settled, toasts, migVars>>

\* onClick={() => handlePriorityChange(priority.value)} up to the await
HandlePriorityChange(newPriority) ==
  /\ open
  /\ updateCalls < MaxCalls
  /\ clicked' = newPriority
  /\ pending' = Append(pending, UpdateArgs(task, newPriority))
  /\ updateCalls' = updateCalls + 1
  /\ UNCHANGED <<open, task, settled, toasts, migVars>>

\* the awaited updateTask resolves: setOpen(false)
UpdateResolved(i) ==
  /\ i \in DOMAIN pending
  /\ pending' = Without(pending, i)
  /\ settled' = Resolved
  /\ open' = FALSE
  /\ UNCHANGED <<task, clicked, updateCalls, toasts, migVars>>

\* the awaited updateTask rejects: the catch clause calls toast.error
UpdateRejected(i, error) ==
  /\ i \in DOMAIN pending
  /\ pending' = Without(pending, i)
  /\ settled' = Rejected(error)
  /\ toasts' = Append(toasts, ToastMessage(error))
  /\ UNCHANGED <<open, task, clicked, updateCalls, migVars>>

\* ------------------------------------------------------- specifications
vars == <<migVars, widgetVars>>

\* the routine alone: one instance, the widget not in use
Init ==
  /\ MigInit
  /\ instances = {1}
  /\ WidgetInit
  /\ task = [id |-> "T-1", title |-> "t1", priority |-> "no-priority"]

Next ==
  \E p \in Procs :
    \/ Start(p)
    \/ ProbeColumn(p)
    \/ AddUserIdColumn(p)
    \/ PopulateUserId(p)
    \/ CountOrphaned(p)
    \/ DeleteOrphaned(p)
    \/ CountNullRecords(p)
    \/ DeleteNullRecords(p)
    \/ CountNullUserIds(p)
    \/ DeleteNullUserIds(p)
    \/ DbError(p)
    \/ LogError(p)
    \/ Rethrow(p)

Spec == Init /\ [][Next]_vars

\* two application instances start up against the same database; every
\* statement is atomic and their statements interleave in any order
InitConcurrent ==
  /\ MigInit
  /\ instances = {1, 2}
  /\ WidgetInit
  /\ task = [id |-> "T-1", title |-> "t1", priority |-> "no-priority"]

\* application startup calls the routine once; the instances are numbered
\* in the order they start
StartUp(p) ==
  /\ pc[p] = "idle"
  /\ \A q \in instances : q < p => runNo[q] > 0
  /\ Start(p)

\* a statement rejected because of the data it meets
DataError(p) == DbError(p) /\ caught'[p] \in DataErrors(p)

\* each instance runs the routine once and keeps its connection
NextConcurrent ==
  \E p \in Procs :
    \/ StartUp(p)
    \/ ProbeColumn(p)
    \/ AddUserIdColumn(p)
    \/ PopulateUserId(p)
    \/ CountOrphaned(p)
    \/ DeleteOrphaned(p)
    \/ CountNullRecords(p)
    \/ DeleteNullRecords(p)
    \/ CountNullUserIds(p)
    \/ DeleteNullUserIds(p)
    \/ DataError(p)
    \/ LogError(p)
    \/ Rethrow(p)

SpecConcurrent == InitConcurrent /\ [][NextConcurrent]_vars

\* the widget alone: no instance runs the routine
InitWidget ==
  /\ WidgetInit
  /\ MigInit
  /\ instances = {}
  /\ wm = <<>>
  /\ user = {}
  /\ ~hasEmailCol
  /\ hasIdCol

NextWidget ==
  \/ \E b \in BOOLEAN : OnOpenChange(b)
  \/ \E t \in Tasks : TaskRefreshed(t)
  \/ \E v \in OptionValues : HandlePriorityChange(v)
  \/ \E i \in 1..MaxCalls : UpdateResolved(i)
  \/ \E i \in 1..MaxCalls, e \in Rejections : UpdateRejected(i, e)

SpecWidget == InitWidget /\ [][NextWidget]_vars

\* ------------------------------------------------------------ properties
Completed(p) == pc[p] = "done"

EmailOfUser(e) == \E u \in user : u.email = e

IsPrefix(q, full) == Len(q) <= Len(full) /\ q = SubSeq(full, 1, Len(q))

\* C1: when a run of migrateWorkspaceUserEmail has completed without
\* throwing, no row of workspace_member has a null user_id, whatever the
\* initial tables and columns were.
C1_NoNullUserIdAfterRun ==
  \A p \in Procs :
    Completed(p) => \A k \in DOMAIN wm : wm[k].user_id # NULL

\* a completed run that began with a null user_id and kept some row
C1_Witness ==
  /\ Completed(1)
  /\ \E k \in DOMAIN pre[1].wm : pre[1].wm[k].user_id = NULL
  /\ DOMAIN wm # {}

\* C2 as stated: after a completed run every remaining row has a non-null
\* user_id equal to the id of some row of user, rows whose user_id was set
\* before the run included.
C2_EveryUserIdMatchesAUser ==
  \A p \in Procs :
    Completed(p) =>
      \A k \in DOMAIN wm :
        wm[k].user_id # NULL /\ \E u \in user : u.id = wm[k].user_id

\* C2 amended: after a completed run every remaining row has a non-null
\* user_id; it is the id of an existing user when the row's user_id was null
\* before the run, and it is the value the row had before the run otherwise
\* (a value the routine never compares with the user table).
C2_PopulatedIdsMatchAUser ==
  \A p \in Procs :
    Completed(p) =>
      \A k \in DOMAIN wm :
        /\ k \in DOMAIN pre[p].wm
        /\ wm[k].user_id # NULL
        /\ pre[p].wm[k].user_id = NULL => \E u \in user : u.id = wm[k].user_id
        /\ pre[p].wm[k].user_id # NULL => wm[k].user_id = pre[p].wm[k].user_id

\* a completed run that kept a row it populated and a row whose user_id
\* names no user
C2_Witness ==
  /\ Completed(1)
  /\ \E k \in DOMAIN wm : pre[1].wm[k].user_id = NULL
  /\ \E k \in DOMAIN wm : \A u \in user : u.id # wm[k].user_id

\* C3: with the legacy column present, a row that before the run has a null
\* user_id and a user_email equal to an existing user's email is, after a
\* completed run, still present with that user's id as its user_id.
C3_MatchingEmailPopulated ==
  \A p \in Procs :
    (Completed(p) /\ pre[p].hasEmailCol) =>
      \A k \in DOMAIN pre[p].wm :
        \A u \in user :
          (pre[p].wm[k].user_id = NULL /\ pre[p].wm[k].user_email = u.email)
            => (k \in DOMAIN wm /\ wm[k].user_id = u.id)

\* a completed run that populated a row while it removed another one
C3_Witness ==
  /\ Completed(1)
  /\ pre[1].hasEmailCol
  /\ \E k \in DOMAIN wm :
       pre[1].wm[k].user_id = NULL /\ EmailOfUser(pre[1].wm[k].user_email)
  /\ DOMAIN wm # DOMAIN pre[1].wm

\* C4: a row that before the run has a null user_id and a non-null
\* user_email matching no user's email is absent after a completed run.
C4_UnmatchedEmailDeleted ==
  \A p \in Procs :
    Completed(p) =>
      \A k \in DOMAIN pre[p].wm :
        (/\ pre[p].wm[k].user_id = NULL
         /\ pre[p].wm[k].user_email # NULL
         /\ ~EmailOfUser(pre[p].wm[k].user_email)) => k \notin DOMAIN wm

\* a completed run, with users present, that began with such a row
C4_Witness ==
  /\ Completed(1)
  /\ user # {}
  /\ \E k \in DOMAIN pre[1].wm :
       /\ pre[1].wm[k].user_id = NULL
       /\ pre[1].wm[k].user_email \in UserEmails
       /\ ~EmailOfUser(pre[1].wm[k].user_email)
       /\ k \notin DOMAIN wm

\* C5: a row that before the run has a null user_email and a null user_id
\* is absent after a completed run.
C5_NullEmailNullIdDeleted ==
  \A p \in Procs :
    Completed(p) =>
      \A k \in DOMAIN pre[p].wm :
        (pre[p].wm[k].user_id = NULL /\ pre[p].wm[k].user_email = NULL)
          => k \notin DOMAIN wm

\* a completed run that began with such a row and kept another row
C5_Witness ==
  /\ Completed(1)
  /\ \E k \in DOMAIN pre[1].wm :
       /\ pre[1].wm[k].user_id = NULL
       /\ pre[1].wm[k].user_email = NULL
       /\ k \notin DOMAIN wm
  /\ DOMAIN wm # {}

\* C6: a run that follows a completed run (nothing else writing in between)
\* changes nothing: none of its statements changes a row or a column, its
\* UPDATE and DELETEs affect no row, it executes no ALTER TABLE, and when it
\* completes the table is the one the first run left.
C6_SecondRunChangesNothing ==
  /\ [](\A p \in Procs :
          (Completed(p) /\ runNo[p] >= 2 /\ prevOk[p]) => wm = pre[p].wm)
  /\ [][\A p \in Procs :
          (runNo[p] >= 2 /\ prevOk[p] /\ pc[p] \in StmtPcs) =>
            /\ wm' = wm
            /\ hasIdCol' = hasIdCol
            /\ hasEmailCol' = hasEmailCol
            /\ affected'[p] = 0
            /\ ddl'[p] = 0]_vars

\* a second run completed on a table with the legacy column and rows, after
\* a first run that completed
C6_Witness ==
  /\ Completed(1)
  /\ runNo[1] = 2
  /\ prevOk[1]
  /\ hasEmailCol
  /\ DOMAIN wm # {}
  /\ Len(stmts[1]) > 3

\* C7: in a run that finds no user_email column the statements issued are
\* the probe, the final count of rows with null user_id and, exactly when
\* that count is positive, the delete of those rows; no column is added.
C7_NoLegacyColumnOnlySweep ==
  \A p \in Procs :
    (runNo[p] > 0 /\ ~pre[p].hasEmailCol) =>
      /\ IsPrefix(stmts[p], <<"probe", "count_nulluid", "delete_nulluid">>)
      /\ ddl[p] = 0
      /\ hasIdCol = pre[p].hasIdCol
      /\ hasEmailCol = pre[p].hasEmailCol
      /\ Len(stmts[p]) = 3 => nullUserIds[p] > 0
      /\ (Completed(p) /\ nullUserIds[p] > 0) => Len(stmts[p]) = 3

\* a completed run without the legacy column that deleted rows
C7_Witness ==
  /\ Completed(1)
  /\ ~pre[1].hasEmailCol
  /\ stmts[1] = <<"probe", "count_nulluid", "delete_nulluid">>
  /\ DOMAIN wm # DOMAIN pre[1].wm

\* C8: a statement that fails ends the run: the failing step changes no
\* table or column and is the last statement the run issues (no retry, no
\* later statement), the statements completed before it keep their effects,
\* and the error caught is first logged and then thrown to the caller.
C8_ErrorAbortsRun ==
  /\ [](\A p \in Procs :
          /\ pc[p] \in {"rethrow", "thrown"} => logged[p] = caught[p]
          /\ pc[p] = "thrown" => (thrown[p] = caught[p] /\ thrown[p] # NoError)
          /\ pc[p] \notin {"thrown", "idle"} => thrown[p] = NoError)
  /\ [][\A p \in Procs :
          /\ (pc[p] \in StmtPcs /\ caught'[p] # caught[p]) =>
               /\ pc'[p] = "catch"
               /\ caught'[p] \in StatementErrors(p)
               /\ stmts'[p] = Append(stmts[p], pc[p])
               /\ <<hasEmailCol, hasIdCol, wm, user>>' =
                    <<hasEmailCol, hasIdCol, wm, user>>
          /\ (pc[p] \in {"catch", "rethrow", "thrown"} /\ runNo'[p] = runNo[p]) =>
               /\ pc'[p] = (CASE pc[p] = "catch" -> "rethrow"
                              [] OTHER -> "thrown")
               /\ stmts'[p] = stmts[p]
               /\ caught'[p] = caught[p]
               /\ <<hasEmailCol, hasIdCol, wm, user>>' =
                    <<hasEmailCol, hasIdCol, wm, user>>]_vars

\* a first run that threw after its UPDATE and a DELETE had changed the table
C8_Witness ==
  /\ pc[1] = "thrown"
  /\ thrown[1] = "connection_error"
  /\ runNo[1] = 1
  /\ Len(stmts[1]) >= 6
  /\ \E k \in DOMAIN wm : wm[k] # pre[1].wm[k]
  /\ DOMAIN wm # DOMAIN pre[1].wm

\* C9: the popover starts closed; a click on option P makes exactly one
\* updateTask call, whose argument is the rendered task with priority
\* replaced by P, and leaves the popover as it is; when a call resolves the
\* popover is closed.
C9_SelectCallsUpdateOnceThenCloses ==
  /\ open = FALSE
  /\ [][/\ updateCalls' # updateCalls =>
             /\ updateCalls' = updateCalls + 1
             /\ pending' = Append(pending, [id |-> task.id,
                                            title |-> task.title,
                                            priority |-> clicked'])
             /\ open' = open
        /\ (Len(pending') < Len(pending) /\ settled'.state = "resolved") =>
             open' = FALSE]_vars

\* the popover closed by a resolved call while a call for another priority
\* than the task's is still awaited
C9_Witness ==
  /\ settled.state = "resolved"
  /\ ~open
  /\ Len(pending) = 1
  /\ pending[1].priority = "urgent"
  /\ task.priority = "low"
  /\ pending[1].title = task.title

\* C10: when an awaited updateTask call rejects, the handler leaves the open
\* state as it is, makes no further call, and gives toast.error exactly one
\* message: the error's message, or the fixed fallback when the rejection is
\* not an Error; nothing else produces a notification.
C10_RejectionToastsAndKeepsOpen ==
  [][/\ (Len(pending') < Len(pending) /\ settled'.state = "rejected") =>
          /\ open' = open
          /\ updateCalls' = updateCalls
          /\ toasts' = Append(toasts,
                              IF settled'.error.isError
                                THEN settled'.error.message
                                ELSE "Failed to update task priority")
     /\ toasts' # toasts =>
          (Len(pending') < Len(pending) /\ settled'.state = "rejected")]_vars

\* the popover still open after two rejections, one with an Error and one
\* with another value
C10_Witness ==
  /\ open
  /\ settled.state = "rejected"
  /\ toasts = <<"Network error", "Failed to update task priority">>

\* the table one run without error leaves when it starts from database o:
\* with the legacy column, rows that have a user_id stay, rows without one
\* whose user_email is a user's email get that user's id, the others go;
\* without the legacy column, the rows that have a user_id stay
RunResult(o) ==
  LET stays(k) ==
        \/ o.wm[k].user_id # NULL
        \/ o.hasEmailCol /\ EmailOfUser(o.wm[k].user_email)
      idOf(r) == (CHOOSE u \in user : u.email = r.user_email).id
  IN [k \in {j \in DOMAIN o.wm : stays(j)} |->
        IF o.wm[k].user_id # NULL
          THEN o.wm[k]
          ELSE [o.wm[k] EXCEPT !.user_id = idOf(o.wm[k])]]

\* C11: a run that completes leaves the table one uninterrupted run from
\* the original database leaves, also when it follows runs that threw after
\* some of their statements and left the effects of those statements; the
\* user_id column exists then.
C11_ResumedRunSameResult ==
  \A p \in Procs :
    Completed(p) => (wm = RunResult(origin[p]) /\ hasIdCol)

\* a run completed after a run that threw once it had changed the table,
\* with work left for the second run
C11_Witness ==
  /\ Completed(1)
  /\ runNo[1] = 2
  /\ ~prevOk[1]
  /\ pre[1].wm # origin[1].wm
  /\ wm # pre[1].wm
  /\ DOMAIN wm # {}

\* the data on which a single run from database o cannot complete: a row to
\* populate whose user_email is the email of two users, or no user_id column
\* and no legacy column to make the routine add one
RunFailsOnData(o) ==
  \/ /\ o.hasEmailCol
     /\ \E k \in DOMAIN o.wm :
          /\ o.wm[k].user_id = NULL
          /\ Cardinality({u \in user : u.email = o.wm[k].user_email}) > 1
  \/ ~o.hasEmailCol /\ ~o.hasIdCol

\* C12: when two instances run the routine at once, each statement atomic
\* and nothing else writing, a statement fails on the data only where a
\* single run would fail; when both complete, the table is the one a single
\* run from the database the first instance met leaves; and at no moment is
\* a row missing whose user_email is the email of a user.
C12_ConcurrentRunsSameResult ==
  /\ \A p \in Procs : caught[p] # NoError => RunFailsOnData(origin[1])
  /\ (Completed(1) /\ Completed(2)) =>
       (wm = RunResult(origin[1]) /\ hasIdCol)
  /\ \A k \in DOMAIN origin[1].wm :
       (origin[1].hasEmailCol /\ EmailOfUser(origin[1].wm[k].user_email))
         => k \in DOMAIN wm

\* both instances completed; the second started before the first had added
\* the user_id column, each of them wrote rows, a row was populated and a
\* row was removed
C12_Witness ==
  /\ Completed(1)
  /\ Completed(2)
  /\ ~pre[2].hasIdCol
  /\ affected[1] > 0
  /\ affected[2] > 0
  /\ \E k \in DOMAIN wm : wm[k].user_id # NULL
  /\ DOMAIN wm # DOMAIN origin[1].wm

\* the statements of the routine in program order
ProgramOrder ==
  <<"probe", "addcol", "populate", "count_orphaned", "delete_orphaned",
    "count_nullrec", "delete_nullrec", "count_nulluid", "delete_nulluid">>

Rank(s) == CHOOSE i \in DOMAIN ProgramOrder : ProgramOrder[i] = s

\* C13: in a run that finds the legacy column the statements are issued one
\* after the other in program order, none twice: the ADD COLUMN block is
\* the second statement and the UPDATE the third, so every COUNT and DELETE
\* comes after the UPDATE, the orphan DELETE before the null-email DELETE
\* and both before the final sweep.
C13_StatementOrder ==
  \A p \in Procs :
    (runNo[p] > 0 /\ pre[p].hasEmailCol) =>
      /\ \A i, j \in DOMAIN stmts[p] :
           i < j => Rank(stmts[p][i]) < Rank(stmts[p][j])
      /\ \A j \in DOMAIN stmts[p] :
           Rank(stmts[p][j]) >= 3 =>
             /\ j >= 3
             /\ stmts[p][2] = "addcol"
             /\ stmts[p][3] = "populate"
      /\ pc[p] \in StmtPcs =>
           \A j \in DOMAIN stmts[p] : Rank(stmts[p][j]) < Rank(pc[p])

\* a completed run with the legacy column that issued both targeted DELETEs
C13_Witness ==
  /\ Completed(1)
  /\ pre[1].hasEmailCol
  /\ stmts[1] = <<"probe", "addcol", "populate", "count_orphaned",
                  "delete_orphaned", "count_nullrec", "delete_nullrec",
                  "count_nulluid">>

\* C14: in a run that finds the legacy column, nothing else writing, no row
\* has a null user_id when the final count is taken: the count read is 0
\* and the final DELETE is neither reached nor issued.
C14_FinalSweepFindsNothing ==
  \A p \in Procs :
    (runNo[p] > 0 /\ pre[p].hasEmailCol) =>
      /\ pc[p] # "delete_nulluid"
      /\ \A j \in DOMAIN stmts[p] : stmts[p][j] # "delete_nulluid"
      /\ nullUserIds[p] = 0
      /\ pc[p] = "count_nulluid" => \A k \in DOMAIN wm : wm[k].user_id # NULL
      /\ Completed(p) => stmts[p][Len(stmts[p])] = "count_nulluid"

\* a completed run with the legacy column whose two targeted DELETEs removed
\* rows, one with an unmatched email and one without email
C14_Witness ==
  /\ Completed(1)
  /\ pre[1].hasEmailCol
  /\ orphanedRecords[1] > 0
  /\ nullRecords[1] > 0
  /\ nullUserIds[1] = 0
  /\ affected[1] >= 2

\* C15: the user_email column exists throughout a run exactly if it existed
\* when the run began; no step removes it or changes the user_email of a
\* row; the only change of columns is the ADD COLUMN block adding user_id,
\* empty, when it is missing, and that is the only ALTER TABLE executed.
C15_LegacyColumnUntouched ==
  /\ [](\A p \in Procs : runNo[p] > 0 => hasEmailCol = pre[p].hasEmailCol)
  /\ [][/\ hasEmailCol' = hasEmailCol
        /\ \A k \in DOMAIN wm' :
             k \in DOMAIN wm /\ wm'[k].user_email = wm[k].user_email
        /\ hasIdCol' # hasIdCol =>
             /\ ~hasIdCol
             /\ wm' = wm
             /\ \A k \in DOMAIN wm : wm[k].user_id = NULL
             /\ \E p \in Procs : pc[p] = "addcol" /\ ddl'[p] = ddl[p] + 1
        /\ \A p \in Procs :
             ddl'[p] > ddl[p] => (pc[p] = "addcol" /\ ~hasIdCol /\ hasIdCol')
       ]_vars

\* a completed run that added the user_id column and populated a row, which
\* still carries its user_email
C15_Witness ==
  /\ Completed(1)
  /\ ddl[1] = 1
  /\ hasEmailCol
  /\ hasIdCol
  /\ \E k \in DOMAIN wm :
       wm[k].user_email \in UserEmails /\ wm[k].user_id \in UserIds

\* C16: every workspace_member row whose user_id was non-null when the run
\* began is still present with the same user_id and user_email at every
\* point of the run, whatever its user_email is and whether or not its
\* user_id is the id of a user; and no step changes the user table.
C16_RowsWithUserIdUntouched ==
  /\ [](\A p \in Procs :
          runNo[p] > 0 =>
            \A k \in DOMAIN pre[p].wm :
              pre[p].wm[k].user_id # NULL =>
                (k \in DOMAIN wm /\ wm[k] = pre[p].wm[k]))
  /\ [][user' = user]_vars

\* a completed run that changed the table and kept a row whose user_id is
\* the id of no user and whose user_email is the email of no user
C16_Witness ==
  /\ Completed(1)
  /\ wm # pre[1].wm
  /\ user # {}
  /\ \E k \in DOMAIN pre[1].wm :
       /\ pre[1].wm[k].user_id # NULL
       /\ pre[1].wm[k].user_id \notin {u.id : u \in user}
       /\ ~EmailOfUser(pre[1].wm[k].user_email)
       /\ k \in DOMAIN wm

\* C17: a pending update never disables the options: whenever the popover
\* is open, every option can be selected, whatever calls are in flight; a
\* selection adds a call carrying the task as it is at the click with the
\* clicked priority, and no later step (a task refresh included) alters a
\* call that is in flight.
C17_NoInFlightGuard ==
  /\ []((open /\ updateCalls < MaxCalls) =>
          \A v \in OptionValues : ENABLED HandlePriorityChange(v))
  /\ [][\/ /\ updateCalls' = updateCalls + 1
           /\ pending' = Append(pending, [task EXCEPT !.priority = clicked'])
        \/ /\ updateCalls' = updateCalls
           /\ \/ pending' = pending
              \/ \E i \in DOMAIN pending : pending' = Without(pending, i)
       ]_vars

\* two calls pending at once, made from different task objects for
\* different priorities
C17_Witness ==
  /\ Len(pending) = 2
  /\ pending[1].title # pending[2].title
  /\ pending[1].priority # pending[2].priority
  /\ open

CheckedOptions == {i \in DOMAIN priorityOptions : Checked(i)}

\* C18: in every state the checked options are those whose value is the
\* task's current priority, at most one of them; a step that leaves the
\* task object as it is (a selection, an update resolving or rejecting)
\* leaves the checked option as it is.
C18_CheckmarkFollowsTaskOnly ==
  /\ [](/\ Cardinality(CheckedOptions) <= 1
        /\ \A i \in DOMAIN priorityOptions :
             i \in CheckedOptions <=> priorityOptions[i].value = task.priority)
  /\ [][task' = task => CheckedOptions' = CheckedOptions]_vars

\* an update for another priority has resolved and the checkmark is still
\* on the task's priority
C18_Witness ==
  /\ settled = Resolved
  /\ pending = <<>>
  /\ clicked \in OptionValues
  /\ clicked # task.priority
  /\ \E i \in CheckedOptions : priorityOptions[i].value = task.priority

====
